---------------------------- MODULE Spec2Model ----------------------------
(***************************************************************************)
(* The topic list screen of the coding tracker, in its two versions:       *)
(*                                                                         *)
(*   variant "A"  src/screens/HomeScreen.js : signed-in user, a `saving`   *)
(*                flag, action menu, delete confirmation dialog, edit and  *)
(*                view modals, error banner with retry.                    *)
(*   variant "B"  src/unnamed/part_001      : no sign-in, inline editing,  *)
(*                swipe-to-delete with an undo bar (lastDeleted).          *)
(*                                                                         *)
(* Every async handler is cut at its awaits: the part that runs before the *)
(* await is one action (it ends by putting a request in flight), the store *)
(* serving the request is one action, and the part of the handler that     *)
(* runs after the await is one action (it takes the request out).          *)
(* A control is modelled by its handler guarded by its `disabled` /        *)
(* `editable` / `visible` props; a modal lying over another control is not *)
(* taken to block it (the handlers' own guards, such as openMenu's, are    *)
(* what the code relies on).                                               *)
(***************************************************************************)
EXTENDS Naturals, Sequences, FiniteSets

VARIABLES
  variant,             \* "A" | "B": which version of the screen is running
  mounted,             \* the screen component is mounted
  session,             \* identity provider: the signed-in user id, or NoUser
  store,               \* the remote table learning_topics: a set of rows
  nextId,              \* the store's next identifier / creation timestamp
  reqs,                \* requests in flight, in the order they were issued
  input,               \* useState: the add box
  topics,              \* useState: the list shown
  loading,             \* useState
  saving,              \* useState (A)
  debugError,          \* useState (A)
  menuVisible,         \* useState (A)
  menuItem,            \* useState (A)
  confirmVisible,      \* useState (A)
  pendingDeleteId,     \* useState (A)
  pendingDeleteTitle,  \* useState (A)
  editModalVisible,    \* useState (A)
  editingItem,         \* useState (A)
  editingText,         \* useState (A and B)
  lastDeleted,         \* useState (B)
  editingId,           \* useState (B)
  newest,              \* history: result of the most recently issued fetch
                       \*   among those that have completed successfully
  last                 \* history: how the handler of the last step returned,
                       \*   and the notice (Alert.alert) it raised

uiA == <<saving, debugError, menuVisible, menuItem, confirmVisible,
         pendingDeleteId, pendingDeleteTitle, editModalVisible, editingItem>>
uiB == <<lastDeleted, editingId>>
env == <<variant, mounted, session>>
vars == <<variant, mounted, session, store, nextId, reqs, input, topics,
          loading, saving, debugError, menuVisible, menuItem, confirmVisible,
          pendingDeleteId, pendingDeleteTitle, editModalVisible, editingItem,
          editingText, lastDeleted, editingId,
          newest, last>>

---------------------------------------------------------------------------
(* Bounds of the model *)

\* at most this many requests are in flight at once
MaxReqs == 2
\* the store assigns at most this many identifiers
MaxId == 3
\* the store holds no row or this many rows when the screen is opened
InitRows == 2

---------------------------------------------------------------------------
(* Text: a string is a sequence of characters *)

SP == " "
Empty == <<>>
\* what the user can type into the add box and the edit box
Texts == { Empty, <<SP>>, <<SP, "b", SP>> }
\* the sample topic of the empty-list hint
ExampleText == <<"a">>

RECURSIVE TrimLeft(_)
TrimLeft(t) ==
  IF t = <<>> THEN <<>>
  ELSE IF Head(t) = SP THEN TrimLeft(Tail(t)) ELSE t

RECURSIVE TrimRight(_)
TrimRight(t) ==
  IF t = <<>> THEN <<>>
  ELSE IF t[Len(t)] = SP THEN TrimRight(SubSeq(t, 1, Len(t) - 1)) ELSE t

\* String.prototype.trim
trim(t) == TrimRight(TrimLeft(t))

---------------------------------------------------------------------------
(* Values *)

NoUser == "none"
User1 == "u1"
NoId == 0
NoItem == [id |-> NoId, title |-> Empty, created_at |-> 0, user_id |-> NoUser]
NoError == <<>>
\* the error descriptor a failing store request returns: message, no code
StoreError == [message |-> "request failed", code |-> ""]

\* `${error.message} (code: ${error.code ?? "n/a"})`
FormatError(e) ==
  <<e.message, " (code: ", IF e.code = "" THEN "n/a" ELSE e.code, ")">>

Range(s) == { s[i] : i \in DOMAIN s }
RemoveAt(s, i) == SubSeq(s, 1, i - 1) \o SubSeq(s, i + 1, Len(s))

\* .select("*").order("created_at", { ascending: false })
RECURSIVE ListResult(_)
ListResult(rows) ==
  IF rows = {} THEN <<>>
  ELSE LET m == CHOOSE r \in rows : \A q \in rows : q.created_at <= r.created_at
       IN  <<m>> \o ListResult(rows \ {m})

\* an insert whose row the store dates before every other row
InsertRow_oldest(rows, n, title, user) ==
  rows \cup { [id |-> n, title |-> title, created_at |-> 0, user_id |-> user] }

\* .insert([{ title, user_id }]): the store assigns id and created_at
InsertRow(rows, n, title, user) ==
  rows \cup { [id |-> n, title |-> title, created_at |-> n, user_id |-> user] }

\* .update({ title }).eq("id", id)
UpdateRow(rows, id, title) ==
  { IF r.id = id THEN [r EXCEPT !.title = title] ELSE r : r \in rows }

\* .delete().eq("id", id)
DeleteRow(rows, id) == { r \in rows : r.id # id }

---------------------------------------------------------------------------
(* Requests in flight *)

\* kind, and what the request carries: id (the row of an update or delete),
\* title and user (the values of an insert or update); phase, err and data
\* (a fetch's rows) are the store's answer.  History: raw, the buffer the
\* handler read; on an insert, id is the identifier the store assigned; on a
\* fetch, cause is the kind of the request whose success triggered it
\* ("none": a fetch the screen or the user started), and id, title, raw are
\* those of that request; stale, a fetch issued before one that has already
\* succeeded; on an undo and the fetch it triggers, src is the identifier of
\* the buffered record and gone says that this record was no longer in the
\* store (its delete had succeeded) when undo was pressed
NoReq ==
  [kind |-> "none", phase |-> "none", err |-> FALSE, id |-> NoId,
   title |-> Empty, raw |-> Empty, user |-> NoUser, data |-> <<>>,
   cause |-> "none", stale |-> FALSE, src |-> NoId, gone |-> FALSE]

\* a request as it leaves the screen
Req(kind, id, title, raw, user) ==
  [NoReq EXCEPT !.kind = kind, !.phase = "sent", !.id = id, !.title = title,
                !.raw = raw, !.user = user]

\* the fetch that follows request `by` (NoReq: no request)
FetchReq(by) ==
  [Req("fetch", by.id, by.title, by.raw, NoUser)
     EXCEPT !.cause = by.kind, !.src = by.src, !.gone = by.gone]

Mutations == { "getUser", "insert", "update", "delete", "undo" }
InFlight(kinds) == { i \in DOMAIN reqs : reqs[i].kind \in kinds }
CanIssue == Len(reqs) < MaxReqs
\* identifiers the store has yet to hand out to the inserts in flight
InsertsInFlight == Cardinality(InFlight({"getUser", "insert", "undo"}))
CanInsert == nextId + InsertsInFlight <= MaxId

\* what `last` records: the handler that returned in the step and how, with
\* the notice it raised; Quiet for a step that only starts or continues
\* something
Ev(op, out, alert) ==
  [op |-> op, out |-> out, alert |-> alert, cause |-> "none", id |-> NoId]
Quiet == Ev("", "", "")
\* fetchTopics returning, with what had triggered that fetch
EvFetch(r) ==
  [Ev("fetchTopics", IF r.err THEN "error" ELSE "ok", "")
     EXCEPT !.cause = r.cause, !.id = r.id]

---------------------------------------------------------------------------
(* State after construction: the useState initial values, nothing in flight. *)
(* The store holds the rows of earlier sessions.                             *)

\* n rows written earlier through this screen: identifiers 1..n, non-blank
\* titles, owned by the user (who is then signed in when the screen opens)
StoredRows(n) ==
  { [id |-> k, title |-> IF k % 2 = 1 THEN <<"a">> ELSE <<"b">>,
     created_at |-> k, user_id |-> User1] : k \in 1..n }

\* the screen constructed over a store of n rows
InitOn(n) ==
  /\ variant \in {"A", "B"}
  /\ mounted = FALSE
  /\ store = StoredRows(n)
  /\ nextId = n + 1
  /\ session \in (IF variant = "B" THEN {NoUser}
                  ELSE IF n = 0 THEN {NoUser, User1} ELSE {User1})
  /\ reqs = <<>>
  /\ input = Empty
  /\ topics = <<>>
  /\ loading = FALSE
  /\ saving = FALSE
  /\ debugError = NoError
  /\ menuVisible = FALSE
  /\ menuItem = NoItem
  /\ confirmVisible = FALSE
  /\ pendingDeleteId = NoId
  /\ pendingDeleteTitle = Empty
  /\ editModalVisible = FALSE
  /\ editingItem = NoItem
  /\ editingText = Empty
  /\ lastDeleted = NoItem
  /\ editingId = NoId
  /\ newest = <<>>
  /\ last = Quiet

Init == \E n \in {0, InitRows} : InitOn(n)

---------------------------------------------------------------------------
(* The remote store serving a request in flight.  It may serve the requests *)
(* in any order, and any request may fail.                                  *)

Served(r, ok) == [r EXCEPT !.phase = "served", !.err = ~ok]

\* list(): the rows, newest first
StoreList(i) ==
  /\ reqs[i].kind = "fetch" /\ reqs[i].phase = "sent"
  /\ \E ok \in BOOLEAN :
       reqs' = [reqs EXCEPT ![i] =
                  [Served(@, ok) EXCEPT
                     !.data = IF ok THEN ListResult(store) ELSE <<>>]]
  /\ last' = Quiet
  /\ UNCHANGED <<env, store, nextId, input, topics, loading, uiA, editingText,
                 uiB, newest>>

\* insert()
StoreInsert(i) ==
  /\ reqs[i].kind \in {"insert", "undo"} /\ reqs[i].phase = "sent"
  /\ \E ok \in BOOLEAN :
       /\ reqs' = [reqs EXCEPT ![i] =
                     [Served(@, ok) EXCEPT !.id = IF ok THEN nextId ELSE NoId]]
       /\ IF ok
          THEN /\ store' = InsertRow(store, nextId, reqs[i].title, reqs[i].user)
               /\ nextId' = nextId + 1
          ELSE UNCHANGED <<store, nextId>>
  /\ last' = Quiet
  /\ UNCHANGED <<env, input, topics, loading, uiA, editingText, uiB, newest>>

\* update()
StoreUpdate(i) ==
  /\ reqs[i].kind = "update" /\ reqs[i].phase = "sent"
  /\ \E ok \in BOOLEAN :
       /\ reqs' = [reqs EXCEPT ![i] = Served(@, ok)]
       /\ store' = IF ok THEN UpdateRow(store, reqs[i].id, reqs[i].title)
                         ELSE store
  /\ last' = Quiet
  /\ UNCHANGED <<env, nextId, input, topics, loading, uiA, editingText, uiB,
                 newest>>

\* delete()
StoreDelete(i) ==
  /\ reqs[i].kind = "delete" /\ reqs[i].phase = "sent"
  /\ \E ok \in BOOLEAN :
       /\ reqs' = [reqs EXCEPT ![i] = Served(@, ok)]
       /\ store' = IF ok THEN DeleteRow(store, reqs[i].id) ELSE store
  /\ last' = Quiet
  /\ UNCHANGED <<env, nextId, input, topics, loading, uiA, editingText, uiB,
                 newest>>

---------------------------------------------------------------------------
(* fetchTopics, both versions *)

\* the requests left once request i has completed; when it is a fetch that
\* succeeded, the fetches issued before it are from now on stale
Completed(i, freshData) ==
  [j \in 1..(Len(reqs) - 1) |->
     LET r == IF j < i THEN reqs[j] ELSE reqs[j + 1]
     IN  IF freshData /\ j < i /\ r.kind = "fetch"
         THEN [r EXCEPT !.stale = TRUE] ELSE r]

\* HomeScreen.js fetchTopics up to its await, called with the requests left
\* in flight and, from a handler's success path, that handler's request
fetchTopics(rs, by) ==
  /\ loading' = TRUE
  /\ debugError' = NoError
  /\ reqs' = Append(rs, FetchReq(by))

\* fetchTopics after its await, had it no setTopics([]) in its error branch
fetchTopics_done_keepsList(i) ==
  LET r == reqs[i] IN
  /\ variant = "A"
  /\ r.kind = "fetch" /\ r.phase = "served"
  /\ IF r.err
     THEN /\ debugError' = FormatError(StoreError)
          /\ UNCHANGED topics
     ELSE /\ topics' = r.data
          /\ UNCHANGED debugError
  /\ loading' = FALSE
  /\ reqs' = Completed(i, ~r.err)
  /\ newest' = IF ~r.err /\ ~r.stale THEN r.data ELSE newest
  /\ last' = EvFetch(r)
  /\ UNCHANGED <<env, store, nextId, input, saving, menuVisible, menuItem,
                 confirmVisible, pendingDeleteId, pendingDeleteTitle,
                 editModalVisible, editingItem, editingText, uiB>>

\* HomeScreen.js fetchTopics after its await
fetchTopics_done(i) ==
  LET r == reqs[i] IN
  /\ variant = "A"
  /\ r.kind = "fetch" /\ r.phase = "served"
  /\ IF r.err
     THEN /\ debugError' = FormatError(StoreError)
          /\ topics' = <<>>
     ELSE /\ topics' = r.data
          /\ UNCHANGED debugError
  /\ loading' = FALSE
  /\ reqs' = Completed(i, ~r.err)
  /\ newest' = IF ~r.err /\ ~r.stale THEN r.data ELSE newest
  /\ last' = EvFetch(r)
  /\ UNCHANGED <<env, store, nextId, input, saving, menuVisible, menuItem,
                 confirmVisible, pendingDeleteId, pendingDeleteTitle,
                 editModalVisible, editingItem, editingText, uiB>>

\* part_001 fetchTopics up to its await
fetchTopics_B(rs, by) ==
  /\ loading' = TRUE
  /\ reqs' = Append(rs, FetchReq(by))

\* part_001 fetchTopics after its await
fetchTopics_B_done(i) ==
  LET r == reqs[i] IN
  /\ variant = "B"
  /\ r.kind = "fetch" /\ r.phase = "served"
  /\ topics' = IF ~r.err THEN r.data ELSE topics
  /\ loading' = FALSE
  /\ reqs' = Completed(i, ~r.err)
  /\ newest' = IF ~r.err /\ ~r.stale THEN r.data ELSE newest
  /\ last' = EvFetch(r)
  /\ UNCHANGED <<env, store, nextId, input, uiA, editingText, uiB>>

\* useEffect(() => { fetchTopics(); onAuthStateChange(...) }, [])
Mount ==
  /\ ~mounted
  /\ mounted' = TRUE
  /\ IF variant = "A"
     THEN fetchTopics(reqs, NoReq)
     ELSE fetchTopics_B(reqs, NoReq) /\ UNCHANGED debugError
  /\ last' = Quiet
  /\ UNCHANGED <<variant, session, store, nextId, input, topics, saving,
                 menuVisible, menuItem, confirmVisible, pendingDeleteId,
                 pendingDeleteTitle, editModalVisible, editingItem,
                 editingText, uiB, newest>>

\* the identity provider signals a session event, had the effect's cleanup
\* not cancelled the subscription: the callback runs after unmount as well
onAuthStateChange_noCleanup(u) ==
  /\ variant = "A" /\ CanIssue
  /\ session' = u
  /\ fetchTopics(reqs, NoReq)
  /\ last' = Quiet
  /\ UNCHANGED <<variant, mounted, store, nextId, input, topics, saving,
                 menuVisible, menuItem, confirmVisible, pendingDeleteId,
                 pendingDeleteTitle, editModalVisible, editingItem,
                 editingText, uiB, newest>>

\* the identity provider signals a session event (signed in, token refreshed):
\* the subscribed callback runs fetchTopics.  This screen has no sign-out: a
\* session, once there, stays
onAuthStateChange(u) ==
  /\ variant = "A" /\ mounted /\ CanIssue
  /\ session' = u
  /\ fetchTopics(reqs, NoReq)
  /\ last' = Quiet
  /\ UNCHANGED <<variant, mounted, store, nextId, input, topics, saving,
                 menuVisible, menuItem, confirmVisible, pendingDeleteId,
                 pendingDeleteTitle, editModalVisible, editingItem,
                 editingText, uiB, newest>>

\* the screen is left while nothing is in flight: the effect's cleanup
\* cancels the subscription, and the component's state goes with it (what a
\* later Mount constructs is the useState initial values again)
Unmount ==
  /\ variant = "A" /\ mounted /\ reqs = <<>>
  /\ mounted' = FALSE
  /\ input' = Empty
  /\ topics' = <<>>
  /\ loading' = FALSE
  /\ saving' = FALSE
  /\ debugError' = NoError
  /\ menuVisible' = FALSE
  /\ menuItem' = NoItem
  /\ confirmVisible' = FALSE
  /\ pendingDeleteId' = NoId
  /\ pendingDeleteTitle' = Empty
  /\ editModalVisible' = FALSE
  /\ editingItem' = NoItem
  /\ editingText' = Empty
  /\ newest' = <<>>
  /\ last' = Ev("unmount", "", "")
  /\ UNCHANGED <<variant, session, store, nextId, reqs, uiB>>

\* the identity provider signals a session event while no screen is
\* subscribed: no callback runs
AuthEventUnheard(u) ==
  /\ variant = "A" /\ ~mounted
  /\ session' = u
  /\ last' = Ev("authEvent", "unheard", "")
  /\ UNCHANGED <<variant, mounted, store, nextId, reqs, input, topics,
                 loading, uiA,
                 editingText, uiB, newest>>

\* FlatList refreshing={loading} onRefresh={fetchTopics}: a pull while the
\* control shows refreshing starts nothing
onRefresh ==
  /\ mounted /\ ~loading /\ CanIssue
  /\ IF variant = "A"
     THEN fetchTopics(reqs, NoReq)
     ELSE fetchTopics_B(reqs, NoReq) /\ UNCHANGED debugError
  /\ last' = Quiet
  /\ UNCHANGED <<env, store, nextId, input, topics, saving, menuVisible,
                 menuItem, confirmVisible, pendingDeleteId, pendingDeleteTitle,
                 editModalVisible, editingItem, editingText, uiB, newest>>

\* the error banner's Retry button, disabled={saving}
Retry ==
  /\ variant = "A" /\ mounted /\ debugError # NoError /\ ~saving /\ CanIssue
  /\ fetchTopics(reqs, NoReq)
  /\ last' = Quiet
  /\ UNCHANGED <<env, store, nextId, input, topics, saving, menuVisible,
                 menuItem, confirmVisible, pendingDeleteId, pendingDeleteTitle,
                 editModalVisible, editingItem, editingText, uiB, newest>>

---------------------------------------------------------------------------
(* HomeScreen.js: the add box *)

menuV == <<menuVisible, menuItem>>
delV == <<confirmVisible, pendingDeleteId, pendingDeleteTitle>>
editV == <<editModalVisible, editingItem>>
storeV == <<store, nextId>>

isEditing == editModalVisible

isAddDisabled == saving \/ loading \/ trim(input) = Empty \/ isEditing

\* TextInput value={input} onChangeText={setInput} editable={!isEditing && !saving}
setInput(t) ==
  /\ variant = "A" /\ mounted /\ ~isEditing /\ ~saving
  /\ t # input
  /\ input' = t
  /\ last' = Quiet
  /\ UNCHANGED <<env, storeV, reqs, topics, loading, uiA, editingText, uiB,
                 newest>>

\* the empty-list hint: onPress={() => setInput("Learned how to use FlatList")}
FillExample ==
  /\ variant = "A" /\ mounted /\ topics = <<>> /\ ~loading
  /\ input # ExampleText
  /\ input' = ExampleText
  /\ last' = Quiet
  /\ UNCHANGED <<env, storeV, reqs, topics, loading, uiA, editingText, uiB,
                 newest>>

\* addTopic up to its first await, had it tested `input` and not input.trim()
addTopic_untrimmed ==
  LET title == input IN
  /\ IF title = Empty
     THEN /\ last' = Ev("addTopic", "blank", "")
          /\ UNCHANGED <<saving, reqs>>
     ELSE /\ CanIssue /\ CanInsert
          /\ saving' = TRUE
          /\ reqs' = Append(reqs, Req("getUser", NoId, title, input, NoUser))
          /\ last' = Quiet
  /\ UNCHANGED <<env, store, nextId, input, topics, loading, debugError,
                 menuVisible, menuItem, confirmVisible, pendingDeleteId,
                 pendingDeleteTitle, editModalVisible, editingItem,
                 editingText, uiB, newest>>

\* addTopic up to its first await (supabase.auth.getUser)
addTopic ==
  LET title == trim(input) IN
  /\ IF title = Empty
     THEN /\ last' = Ev("addTopic", "blank", "")
          /\ UNCHANGED <<saving, reqs>>
     ELSE /\ CanIssue /\ CanInsert
          /\ saving' = TRUE
          /\ reqs' = Append(reqs, Req("getUser", NoId, title, input, NoUser))
          /\ last' = Quiet
  /\ UNCHANGED <<env, storeV, input, topics, loading, debugError, menuV, delV,
                 editV, editingText, uiB, newest>>

\* the + button, disabled={isAddDisabled}
PressAdd == variant = "A" /\ mounted /\ ~isAddDisabled /\ addTopic

\* the add box's return key, onSubmitEditing={addTopic}
onSubmitEditing == variant = "A" /\ mounted /\ ~isEditing /\ ~saving /\ addTopic

\* addTopic from getUser's answer on, had it no `if (!userId)` return
addTopic_gotUser_unchecked(i) ==
  LET r == reqs[i]
      userId == session
  IN
  /\ variant = "A" /\ r.kind = "getUser"
  /\ reqs' = Append(RemoveAt(reqs, i),
                    Req("insert", NoId, r.title, r.raw, userId))
  /\ last' = Quiet
  /\ UNCHANGED <<env, storeV, saving, input, topics, loading, debugError,
                 menuV, delV, editV, editingText, uiB, newest>>

\* addTopic from getUser's answer on, had its `if (!userId)` branch returned
\* without setSaving(false)
addTopic_gotUser_keepsSaving(i) ==
  LET r == reqs[i]
      userId == session
  IN
  /\ variant = "A" /\ r.kind = "getUser"
  /\ IF userId = NoUser
     THEN /\ reqs' = RemoveAt(reqs, i)
          /\ last' = Ev("addTopic", "unauthenticated", "Sign in required")
     ELSE /\ reqs' = Append(RemoveAt(reqs, i),
                            Req("insert", NoId, r.title, r.raw, userId))
          /\ last' = Quiet
  /\ UNCHANGED <<env, storeV, saving, input, topics, loading, debugError,
                 menuV, delV, editV, editingText, uiB, newest>>

\* addTopic from getUser's answer up to its second await (insert)
addTopic_gotUser(i) ==
  LET r == reqs[i]
      userId == session
  IN
  /\ variant = "A" /\ r.kind = "getUser"
  /\ IF userId = NoUser
     THEN /\ saving' = FALSE
          /\ reqs' = RemoveAt(reqs, i)
          /\ last' = Ev("addTopic", "unauthenticated", "Sign in required")
     ELSE /\ reqs' = Append(RemoveAt(reqs, i),
                            Req("insert", NoId, r.title, r.raw, userId))
          /\ last' = Quiet
          /\ UNCHANGED saving
  /\ UNCHANGED <<env, storeV, input, topics, loading, debugError, menuV, delV,
                 editV, editingText, uiB, newest>>

\* addTopic after the insert's answer
addTopic_done(i) ==
  LET r == reqs[i] IN
  /\ variant = "A" /\ r.kind = "insert" /\ r.phase = "served"
  /\ IF r.err
     THEN /\ last' = Ev("addTopic", "error", "Couldn't add topic")
          /\ reqs' = RemoveAt(reqs, i)
          /\ UNCHANGED <<input, loading, debugError>>
     ELSE /\ input' = Empty
          /\ fetchTopics(RemoveAt(reqs, i), r)
          /\ last' = Ev("addTopic", "ok", "")
  /\ saving' = FALSE
  /\ UNCHANGED <<env, storeV, topics, menuV, delV, editV, editingText,
                 uiB, newest>>

---------------------------------------------------------------------------
(* HomeScreen.js: action menu, view modal *)

\* what `last` records when openMenu opens the menu for item: as its cause,
\* the handler that had just resolved an edit session, if one had
EvOpenMenu(item) ==
  [Ev("openMenu", "ok", "") EXCEPT
     !.id = item.id,
     !.cause = IF last.op = "cancelEdit" \/ (last.op = "saveEdit" /\ last.out = "ok")
               THEN last.op ELSE "none"]

\* openMenu, had it no `if (isEditing && ...)` guard
openMenu_unguarded(item) ==
  /\ menuItem' = item
  /\ menuVisible' = TRUE
  /\ last' = EvOpenMenu(item)
  /\ UNCHANGED <<env, storeV, reqs, input, topics, loading, saving, debugError,
                 delV, editV, editingText, uiB, newest>>

\* openMenu, had its guard compared the ids with === and not !==
openMenu_sameId(item) ==
  /\ IF isEditing /\ editingItem.id = item.id
     THEN /\ last' = Ev("openMenu", "rejected", "Finish editing first")
          /\ UNCHANGED menuV
     ELSE /\ menuItem' = item
          /\ menuVisible' = TRUE
          /\ last' = EvOpenMenu(item)
  /\ UNCHANGED <<env, storeV, reqs, input, topics, loading, saving, debugError,
                 delV, editV, editingText, uiB, newest>>

\* openMenu, had it tested isEditing alone
openMenu_anyEdit(item) ==
  /\ IF isEditing
     THEN /\ last' = Ev("openMenu", "rejected", "Finish editing first")
          /\ UNCHANGED menuV
     ELSE /\ menuItem' = item
          /\ menuVisible' = TRUE
          /\ last' = EvOpenMenu(item)
  /\ UNCHANGED <<env, storeV, reqs, input, topics, loading, saving, debugError,
                 delV, editV, editingText, uiB, newest>>

openMenu(item) ==
  /\ IF isEditing /\ editingItem.id # item.id
     THEN /\ last' = Ev("openMenu", "rejected", "Finish editing first")
          /\ UNCHANGED menuV
     ELSE /\ menuItem' = item
          /\ menuVisible' = TRUE
          /\ last' = EvOpenMenu(item)
  /\ UNCHANGED <<env, storeV, reqs, input, topics, loading, saving, debugError,
                 delV, editV, editingText, uiB, newest>>

\* a row's ellipsis button, disabled={saving}
PressEllipsis ==
  /\ variant = "A" /\ mounted /\ ~saving
  /\ \E item \in Range(topics) : openMenu(item)

\* closeMenu, had it hidden the menu and kept its record
closeMenu_keepsItem ==
  /\ menuVisible' = FALSE
  /\ last' = Quiet
  /\ UNCHANGED <<env, storeV, reqs, input, topics, loading, saving, debugError,
                 menuItem, delV, editV, editingText, uiB, newest>>

closeMenu ==
  /\ menuVisible' = FALSE
  /\ menuItem' = NoItem
  /\ last' = Quiet
  /\ UNCHANGED <<env, storeV, reqs, input, topics, loading, saving, debugError,
                 delV, editV, editingText, uiB, newest>>

\* ActionMenu onClose: Close, the overlay, the back key
PressCloseMenu == variant = "A" /\ mounted /\ menuVisible /\ closeMenu

\* an entry of the ActionMenu can be pressed: disabled={saving}, and its
\* handler runs only with a menuItem
MenuEntryEnabled ==
  variant = "A" /\ mounted /\ menuVisible /\ ~saving /\ menuItem # NoItem

\* the menu's View entry: closeMenu(), then the view modal is shown.  The
\* view modal's own state (viewItem, viewModalVisible) is read by no handler
\* and by no other control, and is left out
openView ==
  /\ MenuEntryEnabled
  /\ menuVisible' = FALSE
  /\ menuItem' = NoItem
  /\ last' = Quiet
  /\ UNCHANGED <<env, storeV, reqs, input, topics, loading, saving, debugError,
                 delV, editV, editingText, uiB, newest>>

---------------------------------------------------------------------------
(* HomeScreen.js: delete confirmation *)

requestDelete ==
  /\ MenuEntryEnabled
  /\ menuVisible' = FALSE
  /\ menuItem' = NoItem
  /\ pendingDeleteId' = menuItem.id
  /\ pendingDeleteTitle' = menuItem.title
  /\ confirmVisible' = TRUE
  /\ last' = Quiet
  /\ UNCHANGED <<env, storeV, reqs, input, topics, loading, saving, debugError,
                 editV, editingText, uiB, newest>>

\* confirmDelete up to its await; the dialog's Delete button is disabled
\* while saving (loading={saving})
confirmDelete ==
  /\ variant = "A" /\ mounted /\ confirmVisible /\ ~saving
  /\ IF pendingDeleteId = NoId
     THEN /\ last' = Ev("confirmDelete", "no target", "")
          /\ UNCHANGED <<saving, reqs>>
     ELSE /\ CanIssue
          /\ saving' = TRUE
          /\ reqs' = Append(reqs, Req("delete", pendingDeleteId, Empty, Empty,
                                      NoUser))
          /\ last' = Quiet
  /\ UNCHANGED <<env, storeV, input, topics, loading, debugError, menuV, delV,
                 editV, editingText, uiB, newest>>

\* confirmDelete after the delete's answer, had it called fetchTopics
\* whether or not the delete failed
confirmDelete_done_alwaysFetch(i) ==
  LET r == reqs[i] IN
  /\ variant = "A" /\ r.kind = "delete" /\ r.phase = "served"
  /\ fetchTopics(RemoveAt(reqs, i), r)
  /\ last' = Ev("confirmDelete", IF r.err THEN "error" ELSE "ok",
                IF r.err THEN "Couldn't delete topic" ELSE "")
  /\ saving' = FALSE
  /\ confirmVisible' = FALSE
  /\ pendingDeleteId' = NoId
  /\ pendingDeleteTitle' = Empty
  /\ UNCHANGED <<env, storeV, input, topics, menuV, editV, editingText,
                 uiB, newest>>

\* confirmDelete after the delete's answer, had it left the dialog and its
\* target as they were when the delete failed
confirmDelete_done_keepsOnError(i) ==
  LET r == reqs[i] IN
  /\ variant = "A" /\ r.kind = "delete" /\ r.phase = "served"
  /\ IF r.err
     THEN /\ last' = Ev("confirmDelete", "error", "Couldn't delete topic")
          /\ reqs' = RemoveAt(reqs, i)
          /\ UNCHANGED <<loading, debugError, delV>>
     ELSE /\ fetchTopics(RemoveAt(reqs, i), r)
          /\ last' = Ev("confirmDelete", "ok", "")
          /\ confirmVisible' = FALSE
          /\ pendingDeleteId' = NoId
          /\ pendingDeleteTitle' = Empty
  /\ saving' = FALSE
  /\ UNCHANGED <<env, storeV, input, topics, menuV, editV, editingText,
                 uiB, newest>>

\* confirmDelete after the delete's answer, had it closed the edit modal too
confirmDelete_done_closesEdit(i) ==
  LET r == reqs[i] IN
  /\ variant = "A" /\ r.kind = "delete" /\ r.phase = "served"
  /\ IF r.err
     THEN /\ last' = Ev("confirmDelete", "error", "Couldn't delete topic")
          /\ reqs' = RemoveAt(reqs, i)
          /\ UNCHANGED <<loading, debugError>>
     ELSE /\ fetchTopics(RemoveAt(reqs, i), r)
          /\ last' = Ev("confirmDelete", "ok", "")
  /\ saving' = FALSE
  /\ confirmVisible' = FALSE
  /\ pendingDeleteId' = NoId
  /\ pendingDeleteTitle' = Empty
  /\ editModalVisible' = FALSE
  /\ editingItem' = NoItem
  /\ editingText' = Empty
  /\ UNCHANGED <<env, storeV, input, topics, menuV, uiB, newest>>

\* confirmDelete after the delete's answer
confirmDelete_done(i) ==
  LET r == reqs[i] IN
  /\ variant = "A" /\ r.kind = "delete" /\ r.phase = "served"
  /\ IF r.err
     THEN /\ last' = Ev("confirmDelete", "error", "Couldn't delete topic")
          /\ reqs' = RemoveAt(reqs, i)
          /\ UNCHANGED <<loading, debugError>>
     ELSE /\ fetchTopics(RemoveAt(reqs, i), r)
          /\ last' = Ev("confirmDelete", "ok", "")
  /\ saving' = FALSE
  /\ confirmVisible' = FALSE
  /\ pendingDeleteId' = NoId
  /\ pendingDeleteTitle' = Empty
  /\ UNCHANGED <<env, storeV, input, topics, menuV, editV, editingText,
                 uiB, newest>>

cancelDelete ==
  /\ confirmVisible' = FALSE
  /\ pendingDeleteId' = NoId
  /\ pendingDeleteTitle' = Empty
  /\ last' = Ev("cancelDelete", "", "")
  /\ UNCHANGED <<env, storeV, reqs, input, topics, loading, saving, debugError,
                 menuV, editV, editingText, uiB, newest>>

\* the dialog's Keep button, disabled={loading} with loading={saving}
PressKeep == variant = "A" /\ mounted /\ confirmVisible /\ ~saving /\ cancelDelete

\* the dialog's overlay (onPress={onCancel}) and the back key
\* (onRequestClose={onCancel}): neither is disabled
DismissConfirm == variant = "A" /\ mounted /\ confirmVisible /\ cancelDelete

---------------------------------------------------------------------------
(* HomeScreen.js: edit modal *)

\* startEdit, had it opened the modal with an empty buffer
startEdit_emptyBuffer ==
  /\ MenuEntryEnabled
  /\ menuVisible' = FALSE
  /\ menuItem' = NoItem
  /\ editingItem' = menuItem
  /\ editingText' = Empty
  /\ editModalVisible' = TRUE
  /\ last' = Quiet
  /\ UNCHANGED <<env, storeV, reqs, input, topics, loading, saving, debugError,
                 delV, uiB, newest>>

startEdit ==
  /\ MenuEntryEnabled
  /\ menuVisible' = FALSE
  /\ menuItem' = NoItem
  /\ editingItem' = menuItem
  /\ editingText' = menuItem.title
  /\ editModalVisible' = TRUE
  /\ last' = Quiet
  /\ UNCHANGED <<env, storeV, reqs, input, topics, loading, saving, debugError,
                 delV, uiB, newest>>

\* the edit modal's TextInput, editable={!saving}
setEditingText(t) ==
  /\ variant = "A" /\ mounted /\ editModalVisible /\ ~saving
  /\ t # editingText
  /\ editingText' = t
  /\ last' = Quiet
  /\ UNCHANGED <<env, storeV, reqs, input, topics, loading, uiA, uiB, newest>>

\* saveEditFromModal up to its await, had it tested editingText untrimmed
saveEditFromModal_untrimmed ==
  LET next == editingText IN
  /\ variant = "A" /\ mounted /\ editModalVisible /\ ~saving
  /\ IF editingItem = NoItem
     THEN /\ last' = Ev("saveEdit", "no target", "")
          /\ UNCHANGED <<saving, reqs>>
     ELSE IF next = Empty
     THEN /\ last' = Ev("saveEdit", "blank", "Topic required")
          /\ UNCHANGED <<saving, reqs>>
     ELSE /\ CanIssue
          /\ saving' = TRUE
          /\ reqs' = Append(reqs, Req("update", editingItem.id, next,
                                      editingText, NoUser))
          /\ last' = Quiet
  /\ UNCHANGED <<env, storeV, input, topics, loading, debugError, menuV, delV,
                 editV, editingText, uiB, newest>>

\* saveEditFromModal up to its await; the Save button is disabled={saving}
saveEditFromModal ==
  LET next == trim(editingText) IN
  /\ variant = "A" /\ mounted /\ editModalVisible /\ ~saving
  /\ IF editingItem = NoItem
     THEN /\ last' = Ev("saveEdit", "no target", "")
          /\ UNCHANGED <<saving, reqs>>
     ELSE IF next = Empty
     THEN /\ last' = Ev("saveEdit", "blank", "Topic required")
          /\ UNCHANGED <<saving, reqs>>
     ELSE /\ CanIssue
          /\ saving' = TRUE
          /\ reqs' = Append(reqs, Req("update", editingItem.id, next,
                                      editingText, NoUser))
          /\ last' = Quiet
  /\ UNCHANGED <<env, storeV, input, topics, loading, debugError, menuV, delV,
                 editV, editingText, uiB, newest>>

\* saveEditFromModal after the update's answer
saveEditFromModal_done(i) ==
  LET r == reqs[i] IN
  /\ variant = "A" /\ r.kind = "update" /\ r.phase = "served"
  /\ IF r.err
     THEN /\ last' = Ev("saveEdit", "error", "Couldn't save changes")
          /\ reqs' = RemoveAt(reqs, i)
          /\ UNCHANGED <<editV, editingText, loading, debugError>>
     ELSE /\ editModalVisible' = FALSE
          /\ editingItem' = NoItem
          /\ editingText' = Empty
          /\ fetchTopics(RemoveAt(reqs, i), r)
          /\ last' = Ev("saveEdit", "ok", "")
  /\ saving' = FALSE
  /\ UNCHANGED <<env, storeV, input, topics, menuV, delV, uiB, newest>>

\* cancelModalEdit, had it left the edit buffer as it was
cancelModalEdit_keepsText ==
  /\ editModalVisible' = FALSE
  /\ editingItem' = NoItem
  /\ last' = Ev("cancelEdit", "", "")
  /\ UNCHANGED <<env, storeV, reqs, input, topics, loading, saving, debugError,
                 menuV, delV, editingText, uiB, newest>>

cancelModalEdit ==
  /\ editModalVisible' = FALSE
  /\ editingItem' = NoItem
  /\ editingText' = Empty
  /\ last' = Ev("cancelEdit", "", "")
  /\ UNCHANGED <<env, storeV, reqs, input, topics, loading, saving, debugError,
                 menuV, delV, uiB, newest>>

\* the edit modal's Back button, disabled={saving}
PressBack == variant = "A" /\ mounted /\ editModalVisible /\ ~saving /\ cancelModalEdit

\* the edit modal's onRequestClose (the back key): not disabled
DismissEdit == variant = "A" /\ mounted /\ editModalVisible /\ cancelModalEdit

---------------------------------------------------------------------------
(* part_001: add box, inline edit, swipe delete, undo bar.  No control of   *)
(* this version is ever disabled.                                           *)

\* TextInput value={input} onChangeText={setInput}
setInput_B(t) ==
  /\ variant = "B" /\ mounted
  /\ t # input
  /\ input' = t
  /\ last' = Quiet
  /\ UNCHANGED <<env, storeV, reqs, topics, loading, uiA, editingText, uiB,
                 newest>>

\* addTopic up to its await; the Add button
addTopic_B ==
  /\ variant = "B" /\ mounted
  /\ IF trim(input) = Empty
     THEN /\ last' = Ev("addTopic", "blank", "")
          /\ UNCHANGED reqs
     ELSE /\ CanIssue /\ CanInsert
          /\ reqs' = Append(reqs, Req("insert", NoId, input, input, NoUser))
          /\ last' = Quiet
  /\ UNCHANGED <<env, storeV, input, topics, loading, uiA, editingText, uiB,
                 newest>>

\* addTopic after the insert's answer
addTopic_B_done(i) ==
  LET r == reqs[i] IN
  /\ variant = "B" /\ r.kind = "insert" /\ r.phase = "served"
  /\ IF ~r.err
     THEN /\ input' = Empty
          /\ fetchTopics_B(RemoveAt(reqs, i), r)
          /\ last' = Ev("addTopic", "ok", "")
     ELSE /\ reqs' = RemoveAt(reqs, i)
          /\ last' = Ev("addTopic", "error", "")
          /\ UNCHANGED <<input, loading>>
  /\ UNCHANGED <<env, storeV, topics, uiA, editingText, uiB, newest>>

\* a row's title, onPress: setEditingId(item.id); setEditingText(item.title)
\* (rendered for the rows that are not being edited)
PressTitle_B ==
  /\ variant = "B" /\ mounted
  /\ \E item \in Range(topics) :
       /\ editingId # item.id
       /\ editingId' = item.id
       /\ editingText' = item.title
  /\ last' = Quiet
  /\ UNCHANGED <<env, storeV, reqs, input, topics, loading, uiA, lastDeleted,
                 newest>>

\* the row whose id is editingId shows the edit box, Save and Cancel
EditRowShown_B ==
  variant = "B" /\ mounted /\ \E item \in Range(topics) : item.id = editingId

\* the edit box, onChangeText={setEditingText}
setEditingText_B(t) ==
  /\ EditRowShown_B
  /\ t # editingText
  /\ editingText' = t
  /\ last' = Quiet
  /\ UNCHANGED <<env, storeV, reqs, input, topics, loading, uiA, uiB, newest>>

\* updateTopic(item.id) up to its await, had it tested editingText untrimmed
updateTopic_untrimmed ==
  /\ EditRowShown_B
  /\ IF editingText = Empty
     THEN /\ last' = Ev("updateTopic", "blank", "")
          /\ UNCHANGED reqs
     ELSE /\ CanIssue
          /\ reqs' = Append(reqs, Req("update", editingId, editingText,
                                      editingText, NoUser))
          /\ last' = Quiet
  /\ UNCHANGED <<env, storeV, input, topics, loading, uiA, editingText, uiB,
                 newest>>

\* updateTopic(item.id) up to its await; the row's Save button
updateTopic ==
  /\ EditRowShown_B
  /\ IF trim(editingText) = Empty
     THEN /\ last' = Ev("updateTopic", "blank", "")
          /\ UNCHANGED reqs
     ELSE /\ CanIssue
          /\ reqs' = Append(reqs, Req("update", editingId, editingText,
                                      editingText, NoUser))
          /\ last' = Quiet
  /\ UNCHANGED <<env, storeV, input, topics, loading, uiA, editingText, uiB,
                 newest>>

\* updateTopic after the update's answer
updateTopic_done(i) ==
  LET r == reqs[i] IN
  /\ variant = "B" /\ r.kind = "update" /\ r.phase = "served"
  /\ IF ~r.err
     THEN /\ editingId' = NoId
          /\ editingText' = Empty
          /\ fetchTopics_B(RemoveAt(reqs, i), r)
          /\ last' = Ev("updateTopic", "ok", "")
     ELSE /\ reqs' = RemoveAt(reqs, i)
          /\ last' = Ev("updateTopic", "error", "")
          /\ UNCHANGED <<editingId, editingText, loading>>
  /\ UNCHANGED <<env, storeV, input, topics, uiA, lastDeleted, newest>>

\* the row's Cancel button: setEditingId(null); setEditingText("")
PressCancel_B ==
  /\ EditRowShown_B
  /\ editingId' = NoId
  /\ editingText' = Empty
  /\ last' = Ev("cancelEdit", "", "")
  /\ UNCHANGED <<env, storeV, reqs, input, topics, loading, uiA, lastDeleted,
                 newest>>

\* handleDelete(item) up to its await, had it kept a record already buffered
handleDelete_keepsFirst(item) ==
  /\ CanIssue
  /\ lastDeleted' = IF lastDeleted = NoItem THEN item ELSE lastDeleted
  /\ reqs' = Append(reqs, Req("delete", item.id, Empty, Empty, NoUser))
  /\ last' = Quiet
  /\ UNCHANGED <<env, storeV, input, topics, loading, uiA, editingText,
                 editingId, newest>>

\* handleDelete(item) up to its await
handleDelete(item) ==
  /\ CanIssue
  /\ lastDeleted' = item
  /\ reqs' = Append(reqs, Req("delete", item.id, Empty, Empty, NoUser))
  /\ last' = Quiet
  /\ UNCHANGED <<env, storeV, input, topics, loading, uiA, editingText,
                 editingId, newest>>

\* a row's swipe Delete button, confirmed in the Alert: confirmDelete(item)
\* calls handleDelete(item)
confirmDelete_B ==
  /\ variant = "B" /\ mounted
  /\ \E item \in Range(topics) : handleDelete(item)

\* handleDelete after the delete's answer, had it also taken the row out of
\* the list itself
handleDelete_done_splices(i) ==
  LET r == reqs[i] IN
  /\ variant = "B" /\ r.kind = "delete" /\ r.phase = "served"
  /\ IF ~r.err
     THEN /\ fetchTopics_B(RemoveAt(reqs, i), r)
          /\ topics' = SelectSeq(topics, LAMBDA row : row.id # r.id)
          /\ last' = Ev("handleDelete", "ok", "")
     ELSE /\ reqs' = RemoveAt(reqs, i)
          /\ last' = Ev("handleDelete", "error", "")
          /\ UNCHANGED <<loading, topics>>
  /\ UNCHANGED <<env, storeV, input, uiA, editingText, uiB, newest>>

\* handleDelete after the delete's answer
handleDelete_done(i) ==
  LET r == reqs[i] IN
  /\ variant = "B" /\ r.kind = "delete" /\ r.phase = "served"
  /\ IF ~r.err
     THEN /\ fetchTopics_B(RemoveAt(reqs, i), r)
          /\ last' = Ev("handleDelete", "ok", "")
     ELSE /\ reqs' = RemoveAt(reqs, i)
          /\ last' = Ev("handleDelete", "error", "")
          /\ UNCHANGED loading
  /\ UNCHANGED <<env, storeV, input, topics, uiA, editingText, uiB, newest>>

\* undoDelete up to its await; the undo bar is shown while lastDeleted is set
undoDelete ==
  /\ variant = "B" /\ mounted
  /\ lastDeleted # NoItem
  /\ CanIssue /\ CanInsert
  /\ reqs' = Append(reqs,
       [Req("undo", NoId, lastDeleted.title, lastDeleted.title, NoUser)
          EXCEPT !.src = lastDeleted.id,
                 !.gone = \A row \in store : row.id # lastDeleted.id])
  /\ last' = Quiet
  /\ UNCHANGED <<env, storeV, input, topics, loading, uiA, editingText, uiB,
                 newest>>

\* undoDelete after the insert's answer, whose error it does not read
undoDelete_done(i) ==
  LET r == reqs[i] IN
  /\ variant = "B" /\ r.kind = "undo" /\ r.phase = "served"
  /\ lastDeleted' = NoItem
  /\ fetchTopics_B(RemoveAt(reqs, i), r)
  /\ last' = Ev("undoDelete", IF r.err THEN "error" ELSE "ok", "")
  /\ UNCHANGED <<env, storeV, input, topics, uiA, editingText, editingId,
                 newest>>

---------------------------------------------------------------------------
(* The screen and its collaborators *)

\* the store, and what starts and ends a fetch
Refreshing ==
  \/ Mount
  \/ \E u \in {User1} : onAuthStateChange(u)
  \/ onRefresh
  \/ Retry
  \/ \E i \in DOMAIN reqs : StoreList(i)
  \/ \E i \in DOMAIN reqs : fetchTopics_done(i)
  \/ \E i \in DOMAIN reqs : fetchTopics_B_done(i)

\* the add box
Adding ==
  \/ \E i \in DOMAIN reqs : StoreInsert(i)
  \/ \E t \in Texts : setInput(t)
  \/ FillExample
  \/ PressAdd
  \/ onSubmitEditing
  \/ \E i \in DOMAIN reqs : addTopic_gotUser(i)
  \/ \E i \in DOMAIN reqs : addTopic_done(i)
  \/ \E t \in Texts : setInput_B(t)
  \/ addTopic_B
  \/ \E i \in DOMAIN reqs : addTopic_B_done(i)

\* the action menu of HomeScreen.js
Menu ==
  \/ PressEllipsis
  \/ PressCloseMenu
  \/ openView

\* editing a row
Editing ==
  \/ \E i \in DOMAIN reqs : StoreUpdate(i)
  \/ startEdit
  \/ \E t \in Texts : setEditingText(t)
  \/ saveEditFromModal
  \/ \E i \in DOMAIN reqs : saveEditFromModal_done(i)
  \/ PressBack
  \/ DismissEdit
  \/ PressTitle_B
  \/ \E t \in Texts : setEditingText_B(t)
  \/ updateTopic
  \/ \E i \in DOMAIN reqs : updateTopic_done(i)
  \/ PressCancel_B

\* deleting a row, and the undo bar of part_001
Deleting ==
  \/ \E i \in DOMAIN reqs : StoreDelete(i)
  \/ requestDelete
  \/ confirmDelete
  \/ \E i \in DOMAIN reqs : confirmDelete_done(i)
  \/ PressKeep
  \/ DismissConfirm
  \/ confirmDelete_B
  \/ \E i \in DOMAIN reqs : handleDelete_done(i)

Undoing ==
  \/ \E i \in DOMAIN reqs : StoreInsert(i)
  \/ undoDelete
  \/ \E i \in DOMAIN reqs : undoDelete_done(i)

Next == Refreshing \/ Adding \/ Menu \/ Editing \/ Deleting \/ Undoing

\* every control of the screen in use
Spec == Init /\ [][Next]_vars

\* the user refreshes and adds
SpecAdd == Init /\ [][Refreshing \/ Adding]_vars

\* the user refreshes and edits
SpecEdit == Init /\ [][Refreshing \/ Menu \/ Editing]_vars

\* the user refreshes, deletes and undoes
SpecDelete == Init /\ [][Refreshing \/ Menu \/ Deleting \/ Undoing]_vars

\* HomeScreen.js with a signed-in user
InitA == Init /\ variant = "A" /\ session = User1

\* HomeScreen.js: the action menu, the edit modal and the delete confirmation
\* in use together, with the fetches they trigger and the pull to refresh;
\* the edit box is left as startEdit filled it
Coordinating ==
  \/ Mount
  \/ onRefresh
  \/ \E i \in DOMAIN reqs : StoreList(i)
  \/ \E i \in DOMAIN reqs : fetchTopics_done(i)
  \/ PressEllipsis
  \/ PressCloseMenu
  \/ openView
  \/ \E i \in DOMAIN reqs : StoreUpdate(i)
  \/ startEdit
  \/ saveEditFromModal
  \/ \E i \in DOMAIN reqs : saveEditFromModal_done(i)
  \/ PressBack
  \/ DismissEdit
  \/ \E i \in DOMAIN reqs : StoreDelete(i)
  \/ requestDelete
  \/ confirmDelete
  \/ \E i \in DOMAIN reqs : confirmDelete_done(i)
  \/ PressKeep
  \/ DismissConfirm

SpecCoordinator == InitA /\ [][Coordinating]_vars

---------------------------------------------------------------------------
(* part_001 over a store of one row: swipe delete and the undo bar, with   *)
(* room for two creates                                                    *)

InitUndo == InitOn(1) /\ variant = "B"

UndoBar ==
  \/ Mount
  \/ onRefresh
  \/ \E i \in DOMAIN reqs : StoreList(i)
  \/ \E i \in DOMAIN reqs : fetchTopics_B_done(i)
  \/ \E i \in DOMAIN reqs : StoreDelete(i)
  \/ confirmDelete_B
  \/ \E i \in DOMAIN reqs : handleDelete_done(i)
  \/ \E i \in DOMAIN reqs : StoreInsert(i)
  \/ undoDelete
  \/ \E i \in DOMAIN reqs : undoDelete_done(i)

SpecUndo == InitUndo /\ [][UndoBar]_vars

---------------------------------------------------------------------------
(* HomeScreen.js with every request answered: the store and the identity   *)
(* provider answer each request in flight, and a handler waiting on an     *)
(* answer that has come is resumed.  The user refreshes, adds, edits and   *)
(* deletes, using the list and the add box while no modal lies over them,  *)
(* and opens the menu of the first row.                                    *)

\* opened by a signed-in user over stored rows, or by nobody over none
InitIdle == Init /\ variant = "A" /\ (store = {} => session = NoUser)

\* no modal lies over the list and the add box
Uncovered == ~menuVisible /\ ~confirmVisible /\ ~editModalVisible

\* the ellipsis button of the first row listed
PressEllipsisFirst ==
  /\ variant = "A" /\ mounted /\ ~saving
  /\ topics # <<>> /\ openMenu(topics[1])

Operating ==
  \/ Mount
  \/ Uncovered /\ onRefresh
  \/ \E i \in DOMAIN reqs : StoreList(i)
  \/ \E i \in DOMAIN reqs : fetchTopics_done(i)
  \/ Uncovered /\ setInput(<<SP, "b", SP>>)
  \/ Uncovered /\ PressAdd
  \/ \E i \in DOMAIN reqs : addTopic_gotUser(i)
  \/ \E i \in DOMAIN reqs : StoreInsert(i)
  \/ \E i \in DOMAIN reqs : addTopic_done(i)
  \/ Uncovered /\ PressEllipsisFirst
  \/ startEdit
  \/ saveEditFromModal
  \/ \E i \in DOMAIN reqs : StoreUpdate(i)
  \/ \E i \in DOMAIN reqs : saveEditFromModal_done(i)
  \/ requestDelete
  \/ confirmDelete
  \/ \E i \in DOMAIN reqs : StoreDelete(i)
  \/ \E i \in DOMAIN reqs : confirmDelete_done(i)

\* the handler that issued request i is resumed on its answer
Resumed(i) ==
  \/ fetchTopics_done(i)
  \/ addTopic_gotUser(i)
  \/ addTopic_done(i)
  \/ saveEditFromModal_done(i)
  \/ confirmDelete_done(i)

\* request i is answered, or the handler waiting on its answer is resumed
Answered(i) ==
  \/ StoreList(i) \/ StoreInsert(i) \/ StoreUpdate(i) \/ StoreDelete(i)
  \/ Resumed(i)

SpecIdle ==
  /\ InitIdle /\ [][Operating]_vars
  /\ \A i \in 1..MaxReqs : WF_vars(i \in DOMAIN reqs /\ Answered(i))

---------------------------------------------------------------------------
(* HomeScreen.js mounted, left and mounted again, with session events at   *)
(* any time; while mounted the user refreshes and adds                     *)

Visiting ==
  \/ Mount
  \/ Unmount
  \/ \E u \in {User1} : onAuthStateChange(u)
  \/ \E u \in {User1} : AuthEventUnheard(u)
  \/ onRefresh
  \/ \E i \in DOMAIN reqs : StoreList(i)
  \/ \E i \in DOMAIN reqs : fetchTopics_done(i)
  \/ \E t \in Texts : setInput(t)
  \/ PressAdd
  \/ \E i \in DOMAIN reqs : addTopic_gotUser(i)
  \/ \E i \in DOMAIN reqs : StoreInsert(i)
  \/ \E i \in DOMAIN reqs : addTopic_done(i)

InitSession == Init /\ variant = "A"

SpecSession == InitSession /\ [][Visiting]_vars

---------------------------------------------------------------------------
(* Both versions, every handler that writes a title to the store: add,     *)
(* update, and part_001's undo after a swipe delete; the user acts once    *)
(* nothing is in flight                                                    *)

\* nothing is in flight
Settled == reqs = <<>>

Writing ==
  \/ Mount
  \/ \E i \in DOMAIN reqs : StoreList(i)
  \/ \E i \in DOMAIN reqs : fetchTopics_done(i)
  \/ \E i \in DOMAIN reqs : fetchTopics_B_done(i)
  \/ \E i \in DOMAIN reqs : StoreInsert(i)
  \/ \E i \in DOMAIN reqs : StoreUpdate(i)
  \/ \E i \in DOMAIN reqs : StoreDelete(i)
  \/ Settled /\ \E t \in Texts : setInput(t)
  \/ Settled /\ PressAdd
  \/ \E i \in DOMAIN reqs : addTopic_gotUser(i)
  \/ \E i \in DOMAIN reqs : addTopic_done(i)
  \/ Settled /\ \E t \in Texts : setInput_B(t)
  \/ Settled /\ addTopic_B
  \/ \E i \in DOMAIN reqs : addTopic_B_done(i)
  \/ Settled /\ PressEllipsis
  \/ Settled /\ startEdit
  \/ Settled /\ \E t \in Texts : setEditingText(t)
  \/ Settled /\ saveEditFromModal
  \/ \E i \in DOMAIN reqs : saveEditFromModal_done(i)
  \/ Settled /\ PressTitle_B
  \/ Settled /\ \E t \in Texts : setEditingText_B(t)
  \/ Settled /\ updateTopic
  \/ \E i \in DOMAIN reqs : updateTopic_done(i)
  \/ Settled /\ confirmDelete_B
  \/ \E i \in DOMAIN reqs : handleDelete_done(i)
  \/ Settled /\ undoDelete
  \/ \E i \in DOMAIN reqs : undoDelete_done(i)

SpecWrites == Init /\ [][Writing]_vars

---------------------------------------------------------------------------
(* The menu, edit modal and delete confirmation of HomeScreen.js and the   *)
(* inline edit of part_001, each with its way out                          *)

Resolving ==
  \/ Coordinating
  \/ \E i \in DOMAIN reqs : fetchTopics_B_done(i)
  \/ PressTitle_B
  \/ updateTopic
  \/ \E i \in DOMAIN reqs : updateTopic_done(i)
  \/ PressCancel_B

SpecCancel == Init /\ [][Resolving]_vars

---------------------------------------------------------------------------
(* HomeScreen.js: the error banner.  The mount fetch and the fetch after   *)
(* an add are the fetches that overlap here; the list is pulled and Retry  *)
(* is pressed while nothing is in flight, and no session event arrives.    *)
(* Adds follow one another (saving), so of the fetches issued so far the   *)
(* one after the add of row nextId - 1 is the one issued last.             *)

InitBanner == Init /\ variant = "A"

Bannering ==
  \/ Mount
  \/ Settled /\ onRefresh
  \/ Settled /\ Retry
  \/ \E i \in DOMAIN reqs : StoreList(i)
  \/ \E i \in DOMAIN reqs : fetchTopics_done(i)
  \/ \E t \in Texts : setInput(t)
  \/ PressAdd
  \/ onSubmitEditing
  \/ \E i \in DOMAIN reqs : addTopic_gotUser(i)
  \/ \E i \in DOMAIN reqs : StoreInsert(i)
  \/ \E i \in DOMAIN reqs : addTopic_done(i)

SpecBanner == InitBanner /\ [][Bannering]_vars

----------------------------------------------------------------------------
(* Claims *)

\* a step in which fetchTopics returns for request i
FetchReturns(i) == fetchTopics_done(i) \/ fetchTopics_B_done(i)

\* the position of the row with identifier id in list l (0: not listed)
PosOf(l, id) ==
  IF \E k \in DOMAIN l : l[k].id = id
  THEN CHOOSE k \in DOMAIN l : l[k].id = id
  ELSE 0

\* C1: in every reachable state at most one add / update / delete /
\* undo-create request (the add's identity lookup included) is in flight.
C1_SingleFlightMutation == Cardinality(InFlight(Mutations)) <= 1

\* C2: loading (a fetch in flight) and saving (a mutation in flight) are
\* never both set.
C2_LoadingSavingExclusive == ~(loading /\ saving)

\* C3: no two fetches overlap: at most one list request is in flight.
C3_NoOverlappingRefresh == Cardinality(InFlight({"fetch"})) <= 1

\* C4: the list shown is the result of the most recently issued fetch among
\* those that succeeded; stated for the states a successful fetch has just
\* written the list in, where "an older fetch never replaces the result of a
\* newer one" is what it says.
C4_ListIsNewestSnapshot ==
  (last.op = "fetchTopics" /\ last.out = "ok") => topics = newest

\* a fetch issued before the add has answered after the add's own fetch and
\* put back the list without the added row: nothing is in flight any more,
\* and the list shown is neither the newest fetch's result nor the store's
C4_StaleListShown ==
  /\ reqs = <<>> /\ last.op = "fetchTopics" /\ last.out = "ok"
  /\ newest = ListResult(store)
  /\ topics # newest

C6_BlankAddIsNoOp ==
  [][(trim(input) = Empty /\ (onSubmitEditing \/ PressAdd \/ addTopic_B))
       => UNCHANGED <<store, nextId, reqs, topics, input, saving, loading>>]_vars

\* add has just returned on a whitespace-only input
C6_Witness ==
  /\ last.op = "addTopic" /\ last.out = "blank"
  /\ input = <<SP>> /\ ~saving

\* C7: add with a non-blank input and no signed-in user: the lookup is the
\* only request add issues; when it resolves no user, add returns with the
\* sign-in notice, saving off, no insert and no fetch issued, list, input and
\* store untouched.
C7_AddUnauthenticated ==
  [][/\ (trim(input) # Empty /\ (onSubmitEditing \/ PressAdd))
          => /\ reqs' = Append(reqs, Req("getUser", NoId, trim(input), input, NoUser))
             /\ UNCHANGED <<store, topics, input, loading>>
     /\ \A i \in DOMAIN reqs :
          (addTopic_gotUser(i) /\ session = NoUser)
          => /\ reqs' = RemoveAt(reqs, i)
             /\ ~saving'
             /\ last'.alert = "Sign in required"
             /\ UNCHANGED <<store, topics, input, loading>>]_vars

\* add has just returned with the sign-in notice
C7_Witness ==
  /\ last.op = "addTopic" /\ last.out = "unauthenticated"
  /\ session = NoUser /\ trim(input) # Empty /\ ~saving
  /\ InFlight(Mutations) = {}

\* C8: the fetch that a successful add triggers, when it succeeds, lists the
\* added row with the trimmed input as its title, ahead of every row with an
\* earlier creation timestamp.  (Checked where nothing deletes rows.)
C8_AddedRowListedTrimmed ==
  [][\A i \in DOMAIN reqs :
       (FetchReturns(i) /\ ~reqs[i].err /\ reqs[i].cause = "insert")
         => LET p == PosOf(topics', reqs[i].id) IN
            /\ p # 0
            /\ topics'[p].title = trim(reqs[i].raw)
            /\ \A k \in DOMAIN topics' :
                 topics'[k].created_at < topics'[p].created_at => p < k]_vars

\* C9: saving an edit whose buffer is blank after trimming issues no
\* request and leaves store, list and the edit session as they were.
C9_BlankUpdateIsNoOp ==
  [][(trim(editingText) = Empty /\ (saveEditFromModal \/ updateTopic))
       => UNCHANGED <<store, reqs, topics, editModalVisible, editingItem,
                      editingId, editingText, saving, loading>>]_vars

\* save has just returned on a whitespace-only buffer, the session still open
C9_Witness ==
  /\ last.op = "saveEdit" /\ last.out = "blank"
  /\ editingText = <<SP>> /\ editModalVisible /\ editingItem # NoItem

\* C10: the fetch that a successful delete of id triggers, when it succeeds,
\* shows a list without id that holds every row the store held when it
\* served that fetch.
C10_DeletedRowNotListed ==
  [][\A i \in DOMAIN reqs :
       /\ (FetchReturns(i) /\ ~reqs[i].err /\ reqs[i].cause = "delete")
            => /\ topics' = reqs[i].data
               /\ \A k \in DOMAIN topics' : topics'[k].id # reqs[i].id
       /\ (StoreList(i) /\ ~reqs'[i].err)
            => /\ { reqs'[i].data[k] : k \in DOMAIN reqs'[i].data } = store
               /\ reqs[i].cause = "delete"
                    => \A row \in store : row.id # reqs[i].id]_vars

\* the list after a delete's fetch: without the deleted row, another row
\* still listed
C10_Witness ==
  /\ last.op = "fetchTopics" /\ last.out = "ok" /\ last.cause = "delete"
  /\ topics # <<>>
  /\ \A k \in DOMAIN topics : topics[k].id # last.id

\* the ellipsis button of the row showing item is pressed
PressEllipsisOn(item) == variant = "A" /\ mounted /\ ~saving /\ openMenu(item)

\* C11: openMenu(B) while an edit session is open for a record A with another
\* id is rejected: menu reference and visibility are left as they were, the
\* edit session (its record A, its buffer) is left as it was, and the notice
\* "Finish editing first" is raised.
C11_OpenMenuRejectedWhileEditing ==
  [][\A item \in Range(topics) :
       (isEditing /\ editingItem.id # item.id /\ PressEllipsisOn(item))
         => /\ UNCHANGED <<menuVisible, menuItem, editModalVisible,
                           editingItem, editingText>>
            /\ last'.op = "openMenu" /\ last'.out = "rejected"
            /\ last'.alert = "Finish editing first"]_vars

\* openMenu has just been rejected: the edit session is still open, no menu
C11_Witness ==
  /\ last.op = "openMenu" /\ last.out = "rejected"
  /\ isEditing /\ editingItem # NoItem
  /\ ~menuVisible /\ menuItem = NoItem

\* C12: whenever the pending-edit reference and the open-menu reference are
\* both set, they are references to the same record id.
C12_MenuAndEditSameRecord ==
  (editingItem # NoItem /\ menuItem # NoItem) => editingItem.id = menuItem.id

\* the menu is open for the record under edit
C12_Witness ==
  /\ editingItem # NoItem /\ menuItem # NoItem /\ menuVisible /\ isEditing
  /\ Len(topics) > 1

\* C13: openMenu(B) is rejected exactly when an edit session for a record
\* with another id is open, and otherwise sets the menu reference to B; a
\* cancel and a successful save end the edit session, so that right after
\* them openMenu(B) succeeds for every B.
C13_OpenMenuAfterEditResolved ==
  [][/\ \A item \in Range(topics) :
          PressEllipsisOn(item)
            => IF isEditing /\ editingItem.id # item.id
               THEN UNCHANGED <<menuVisible, menuItem>>
               ELSE menuItem' = item /\ menuVisible'
     /\ (PressBack \/ DismissEdit)
          => ~isEditing' /\ editingItem' = NoItem
     /\ \A i \in DOMAIN reqs :
          (saveEditFromModal_done(i) /\ ~reqs[i].err)
            => ~isEditing' /\ editingItem' = NoItem /\ ~saving']_vars

\* the menu has just been opened right after an edit session was resolved
C13_Witness ==
  /\ last.op = "openMenu" /\ last.out = "ok"
  /\ last.cause \in {"cancelEdit", "saveEdit"}
  /\ menuVisible /\ menuItem.id = last.id /\ ~isEditing

\* C14: while saving is set, a step that is not the completion of the
\* mutation in flight (saving stays set) changes none of the action-target
\* references.
C14_TargetsFrozenWhileSaving ==
  [][(saving /\ saving')
       => UNCHANGED <<menuItem, pendingDeleteId, editingItem>>]_vars

\* the delete confirmation was cancelled (overlay or back key) while its
\* delete request was in flight
C14_CancelledWhileDeleting ==
  /\ saving /\ InFlight({"delete"}) # {}
  /\ last.op = "cancelDelete"
  /\ ~confirmVisible /\ pendingDeleteId = NoId

\* C15: the undo buffer never holds a record that is still in the store
\* (it is written only once the record's delete has succeeded).
C15_BufferOnlyAfterSuccess ==
  lastDeleted # NoItem => \A row \in store : row.id # lastDeleted.id

\* undo after a delete that failed: the store has served the undo's create
\* while the buffered record itself is still stored, under the same title
C15_DuplicateOfLivingRecord ==
  \E i \in DOMAIN reqs :
    /\ reqs[i].kind = "undo" /\ reqs[i].phase = "served" /\ ~reqs[i].err
    /\ ~reqs[i].gone
    /\ \E row \in store : row.id = reqs[i].src /\ row.title = reqs[i].title

\* C16: undo takes the buffered record's title; when its create has
\* succeeded, for a record whose delete had succeeded, the fetch it triggers,
\* when it succeeds and the new record has not been deleted in its turn,
\* lists the new record under that title and a new identifier, ahead of
\* every record created before it, and lists no record with the deleted
\* record's identifier.
C16_UndoRecreates ==
  [][/\ undoDelete
          => LET r == reqs'[Len(reqs')] IN
             r.kind = "undo" /\ r.title = lastDeleted.title
     /\ \A i \in DOMAIN reqs :
          (/\ FetchReturns(i) /\ ~reqs[i].err
           /\ reqs[i].cause = "undo" /\ reqs[i].id # NoId /\ reqs[i].gone
           /\ \E row \in store : row.id = reqs[i].id)
            => LET p == PosOf(topics', reqs[i].id) IN
               /\ p # 0
               /\ topics'[p].title = reqs[i].title
               /\ reqs[i].id # reqs[i].src
               /\ \A k \in DOMAIN topics' :
                    /\ topics'[k].id # reqs[i].src
                    /\ topics'[k].id < reqs[i].id => p < k]_vars

\* the list after an undo's fetch: the re-created record first, another
\* record after it
C16_Witness ==
  /\ last.op = "fetchTopics" /\ last.out = "ok" /\ last.cause = "undo"
  /\ last.id # NoId
  /\ Len(topics) > 1 /\ topics[1].id = last.id

\* C17: no two creates are in flight for the same buffered record.
C17_UndoOneShot ==
  \A i, j \in InFlight({"undo"}) : i # j => reqs[i].src # reqs[j].src

\* the undo bar pressed twice before the first answer: the store has
\* created the one deleted record twice
C17_RecreatedTwice ==
  \E i, j \in DOMAIN reqs :
    /\ i # j /\ reqs[i].src = reqs[j].src /\ reqs[i].gone /\ reqs[j].gone
    /\ \A k \in {i, j} :
         reqs[k].kind = "undo" /\ reqs[k].phase = "served" /\ ~reqs[k].err
    /\ Cardinality({ row \in store : row.title = reqs[i].title }) = 2

\* C18: a delete overwrites the buffer with its record, and an undo creates
\* a record under the title the buffer holds when it is pressed.
C18_BufferHoldsLastDelete ==
  [][/\ \A item \in Range(topics) :
          (variant = "B" /\ mounted /\ handleDelete(item))
            => lastDeleted' = item
     /\ undoDelete
          => LET r == reqs'[Len(reqs')] IN
             r.kind = "undo" /\ r.title = lastDeleted.title
                             /\ r.src = lastDeleted.id
     /\ \A i \in DOMAIN reqs :
          (StoreInsert(i) /\ reqs[i].kind = "undo" /\ ~reqs'[i].err)
            => store' = store \cup { [id |-> reqs'[i].id, title |-> reqs[i].title,
                                      created_at |-> reqs'[i].id,
                                      user_id |-> NoUser] }]_vars

\* both stored records have been deleted, one after the other, and the undo
\* pressed then has re-created the one deleted last
C18_Witness ==
  /\ lastDeleted # NoItem
  /\ \E i \in DOMAIN reqs :
       /\ reqs[i].kind = "undo" /\ reqs[i].phase = "served" /\ ~reqs[i].err
       /\ reqs[i].src = lastDeleted.id
       /\ store = { [id |-> reqs[i].id, title |-> lastDeleted.title,
                     created_at |-> reqs[i].id, user_id |-> NoUser] }

C20_RefreshOnlyAfterSuccess ==
  [][\A i \in DOMAIN reqs :
       (reqs[i].kind \in Mutations
        /\ reqs' = Append(RemoveAt(reqs, i), FetchReq(reqs[i])))
         => reqs[i].phase = "served" /\ ~reqs[i].err]_vars

\* undo's create has failed and undo has started a fetch all the same
C20_FetchAfterFailedUndo ==
  /\ last.op = "undoDelete" /\ last.out = "error"
  /\ lastDeleted = NoItem
  /\ \E i \in DOMAIN reqs : reqs[i].kind = "fetch" /\ reqs[i].cause = "undo"

\* a step that puts a fetch in flight in the place of request i
FetchFollows(i) == reqs' = Append(RemoveAt(reqs, i), FetchReq(reqs[i]))

\* C21: when an update returns with success the edit session is closed (no
\* record being edited, the edit buffer empty) and a fetch is started; when
\* it returns with an error a notice is raised, the record being edited and
\* the edit buffer stay as they are, and no fetch is started.
C21_UpdateResult ==
  [][\A i \in DOMAIN reqs :
       (saveEditFromModal_done(i) \/ updateTopic_done(i))
         => IF ~reqs[i].err
            THEN /\ ~editModalVisible' /\ editingItem' = NoItem
                 /\ editingId' = NoId /\ editingText' = Empty
                 /\ FetchFollows(i)
            ELSE /\ last'.alert # ""
                 /\ UNCHANGED <<editModalVisible, editingItem, editingId,
                                editingText>>
                 /\ reqs' = RemoveAt(reqs, i)]_vars

\* part_001: an update has failed; updateTopic has returned without a
\* notice, the row still in its edit box
C21_SilentFailedUpdate ==
  /\ variant = "B"
  /\ last.op = "updateTopic" /\ last.out = "error" /\ last.alert = ""
  /\ editingId # NoId
  /\ InFlight({"fetch"}) = {}

\* C22: when confirmDelete returns, the delete target, its title and the
\* dialog are cleared and saving is off, whatever the store answered; a
\* fetch is started exactly when the delete succeeded and a notice is raised
\* exactly when it failed.
C22_DeleteCompletion ==
  [][\A i \in DOMAIN reqs :
       confirmDelete_done(i)
         => /\ pendingDeleteId' = NoId /\ pendingDeleteTitle' = Empty
            /\ ~confirmVisible' /\ ~saving'
            /\ IF reqs[i].err
               THEN /\ reqs' = RemoveAt(reqs, i)
                    /\ last'.alert = "Couldn't delete topic"
               ELSE FetchFollows(i) /\ last'.alert = ""]_vars

\* a confirmed delete has failed: the dialog is closed, its target cleared,
\* the row still stored and listed, no fetch under way
C22_Witness ==
  /\ last.op = "confirmDelete" /\ last.out = "error"
  /\ ~confirmVisible /\ pendingDeleteId = NoId /\ pendingDeleteTitle = Empty
  /\ reqs = <<>>
  /\ \E row \in store : PosOf(topics, row.id) # 0

\* C23: when an add's insert returns with success the add box is emptied and
\* a fetch is started; when it returns with an error a notice is raised, the
\* add box keeps its text and no fetch is started.
C23_AddResult ==
  [][\A i \in DOMAIN reqs :
       (addTopic_done(i) \/ addTopic_B_done(i))
         => IF ~reqs[i].err
            THEN input' = Empty /\ FetchFollows(i)
            ELSE /\ last'.alert # ""
                 /\ input' = input
                 /\ reqs' = RemoveAt(reqs, i)]_vars

\* part_001: an insert has failed; addTopic has returned without a notice,
\* the text still in the add box
C23_SilentFailedAdd ==
  /\ variant = "B"
  /\ last.op = "addTopic" /\ last.out = "error" /\ last.alert = ""
  /\ trim(input) # Empty
  /\ InFlight({"fetch"}) = {}

\* C24: with every request answered, whenever nothing is in flight loading
\* and saving are both off; saving, once set by a mutation, goes off again
\* and so does loading (each is off again and again); and the request that
\* has been in flight the longest is always taken out in the end, so that
\* every fetch, add, update and delete that was started returns.
C24_ReturnsToIdle ==
  /\ [](reqs = <<>> => ~loading /\ ~saving)
  /\ []<>(~saving)
  /\ []<>(~loading)
  /\ ([]<>(reqs = <<>>) \/ []<><<1 \in DOMAIN reqs /\ Resumed(1)>>_vars)

\* nothing is in flight after a mutation that failed, or an add without a
\* signed-in user: both flags are off
C24_Witness ==
  /\ reqs = <<>> /\ ~loading /\ ~saving
  /\ last.out \in {"error", "unauthenticated"}
  /\ last.op \in {"addTopic", "saveEdit", "confirmDelete"}

C26_SessionEventRefreshes ==
  [][/\ \A u \in {User1} :
          onAuthStateChange(u)
            => mounted /\ loading' /\ reqs' = Append(reqs, FetchReq(NoReq))
     /\ (~mounted /\ ~mounted') => reqs' = reqs]_vars

\* the screen was mounted (a row was added from it), then left; a session
\* event has come since and nothing is in flight
C26_Witness ==
  /\ ~mounted /\ last.op = "authEvent"
  /\ store \notin { StoredRows(0), StoredRows(InitRows) }
  /\ reqs = <<>>

\* C27: every stored title, and every title an insert or update in flight
\* carries, is non-empty after trimming.
C27_TitlesNonBlank ==
  /\ \A row \in store : trim(row.title) # Empty
  /\ \A i \in DOMAIN reqs :
       reqs[i].kind \in {"getUser", "insert", "update", "undo"}
         => trim(reqs[i].title) # Empty

\* part_001: a title typed with spaces around it has been written as typed,
\* and an undo has created a row
C27_Witness ==
  /\ \E row \in store : row.title = <<SP, "b", SP>>
  /\ \E i \in DOMAIN reqs :
       reqs[i].kind = "undo" /\ reqs[i].phase = "served" /\ ~reqs[i].err

CancelsDelete == PressKeep \/ DismissConfirm
\* a step of one of the ways out of an edit
CancelsEdit == PressBack \/ DismissEdit \/ PressCancel_B

\* C29: leaving the delete confirmation clears the delete target and its
\* title; leaving an edit clears the record being edited and the edit
\* buffer; neither issues a request nor changes the list or the store.
C29_CancelIssuesNothing ==
  [][/\ CancelsDelete
          => /\ pendingDeleteId' = NoId /\ pendingDeleteTitle' = Empty
             /\ ~confirmVisible'
     /\ CancelsEdit
          => /\ editingItem' = NoItem /\ editingId' = NoId
             /\ editingText' = Empty /\ ~editModalVisible'
     /\ (CancelsDelete \/ CancelsEdit)
          => UNCHANGED <<reqs, topics, store, nextId, loading, saving>>]_vars

\* Keep has been pressed on the confirmation for a listed row: nothing is
\* in flight, the row is still stored and listed
C29_Witness ==
  /\ last.op = "cancelDelete"
  /\ pendingDeleteId = NoId /\ pendingDeleteTitle = Empty /\ ~confirmVisible
  /\ reqs = <<>> /\ ~saving
  /\ Cardinality(store) = InitRows /\ Len(topics) = InitRows

\* C30: the menu's Edit entry and its Delete entry each close the menu and
\* drop its record, and take their target from that record: Edit makes it
\* the record being edited with its title in the edit buffer, Delete makes
\* its id the delete target and its title the title the confirmation shows.
C30_TargetFromMenu ==
  [][/\ startEdit
          => /\ ~menuVisible' /\ menuItem' = NoItem
             /\ editModalVisible'
             /\ editingItem' = menuItem
             /\ editingText' = menuItem.title
     /\ requestDelete
          => /\ ~menuVisible' /\ menuItem' = NoItem
             /\ confirmVisible'
             /\ pendingDeleteId' = menuItem.id
             /\ pendingDeleteTitle' = menuItem.title]_vars

\* Edit has been chosen from the menu of the second listed row: the modal
\* is open on that row with its title in the buffer, the menu is closed
C30_Witness ==
  /\ variant = "A" /\ Len(topics) = InitRows
  /\ editModalVisible /\ editingItem = topics[InitRows]
  /\ editingText = topics[InitRows].title
  /\ ~menuVisible /\ menuItem = NoItem
  /\ pendingDeleteId = NoId /\ reqs = <<>>

\* C31: a successful update of a row changes nothing in the store but that
\* row's title, which becomes the trimmed edit buffer; the answer to the
\* fetch that the update triggers holds every stored row, the updated row
\* under the same identifier with the trimmed edit buffer as its title
\* (unless a later update has changed that row again by then); and that
\* fetch, when it succeeds, shows this answer as the list, the updated row
\* placed by its creation timestamp.
C31_UpdatedRowListedTrimmed ==
  [][\A i \in DOMAIN reqs :
       /\ (StoreUpdate(i) /\ ~reqs'[i].err)
            => /\ \A row \in store :
                    IF row.id = reqs[i].id
                    THEN [row EXCEPT !.title = trim(reqs[i].raw)] \in store'
                    ELSE row \in store'
               /\ Cardinality(store') = Cardinality(store)
       /\ (StoreList(i) /\ ~reqs'[i].err /\ reqs[i].cause = "update")
            => LET d == reqs'[i].data
                   p == PosOf(d, reqs[i].id) IN
               /\ Range(d) = store /\ Len(d) = Cardinality(store)
               /\ p # 0
               /\ (\E row \in store : /\ row.id = reqs[i].id
                                      /\ row.title = reqs[i].title)
                    => d[p].title = trim(reqs[i].raw)
       /\ (FetchReturns(i) /\ ~reqs[i].err /\ reqs[i].cause = "update")
            => LET p == PosOf(topics', reqs[i].id) IN
               /\ topics' = reqs[i].data
               /\ p # 0
               /\ \A k \in DOMAIN topics' :
                    /\ topics'[k].created_at < topics'[p].created_at => p < k
                    /\ topics'[k].created_at > topics'[p].created_at => k < p
     ]_vars

\* part_001: the fetch after a successful update has returned and lists the
\* updated row with the spaces typed around its title
C31_UntrimmedTitleListed ==
  /\ variant = "B"
  /\ last.op = "fetchTopics" /\ last.out = "ok" /\ last.cause = "update"
  /\ reqs = <<>>
  /\ \E k \in DOMAIN topics :
       /\ topics[k].id = last.id
       /\ topics[k].title = <<SP, "b", SP>>
       /\ topics[k] \in store

\* C32: loading is TRUE exactly while some fetch is in flight, and a fetch
\* that returns while another is in flight leaves it TRUE.
C32_LoadingTracksFetches ==
  /\ [](loading <=> InFlight({"fetch"}) # {})
  /\ [][\A i \in DOMAIN reqs :
          (FetchReturns(i) /\ InFlight({"fetch"}) \ {i} # {}) => loading']_vars

\* one of two overlapping fetches has returned: the flag is off, the other
\* fetch has not been answered yet
C32_IdleWhileFetching ==
  /\ last.op = "fetchTopics"
  /\ ~loading
  /\ \E i \in DOMAIN reqs : reqs[i].kind = "fetch" /\ reqs[i].phase = "sent"

\* request i is the fetch issued last: the one that followed the latest add
\* (where fetches are issued as under SpecBanner)
IssuedLast(i) ==
  /\ reqs[i].kind = "fetch" /\ reqs[i].cause = "insert"
  /\ reqs[i].id = nextId - 1

\* C33: when the fetch issued last returns and leaves no fetch in flight,
\* the error description is non-empty exactly if that fetch failed; so the
\* list of a successful fetch is never shown beside the error that an
\* earlier fetch left.
C33_ErrorIsOfLastFetch ==
  [][\A i \in DOMAIN reqs :
       (fetchTopics_done(i) /\ IssuedLast(i) /\ InFlight({"fetch"}) = {i})
         => (debugError' # NoError <=> reqs[i].err)]_vars

\* the fetch after the latest add has returned the store's rows and nothing
\* is in flight; the banner still shows the error of the mount fetch
C33_ErrorBesideFreshList ==
  /\ last.op = "fetchTopics" /\ last.out = "ok"
  /\ last.cause = "insert" /\ last.id = nextId - 1
  /\ reqs = <<>> /\ ~loading
  /\ debugError # NoError
  /\ topics # <<>> /\ Range(topics) = store

\* C34: the action menu is visible exactly when it has a record, the edit
\* modal exactly when a record is being edited, the delete confirmation
\* exactly when a delete target is set.
C34_VisibleIffTargetSet ==
  /\ menuVisible <=> menuItem # NoItem
  /\ editModalVisible <=> editingItem # NoItem
  /\ confirmVisible <=> pendingDeleteId # NoId

\* a save is awaiting the store's answer: the edit modal is open on its
\* record; the menu has been opened and closed again and a delete has been
\* confirmed before, and neither has a target left
C34_Witness ==
  /\ variant = "A" /\ saving
  /\ \E i \in DOMAIN reqs : reqs[i].kind = "update" /\ reqs[i].phase = "served"
  /\ editModalVisible /\ editingItem # NoItem
  /\ ~menuVisible /\ menuItem = NoItem
  /\ ~confirmVisible /\ pendingDeleteId = NoId
  /\ Cardinality(store) < InitRows

====
